---- MODULE Spec2Model ----
(***************************************************************************)
(* Model of components/style/gecko/selector_parser.rs: the Gecko-backed    *)
(* selector vocabulary (pseudo-elements, non-tree-structural               *)
(* pseudo-classes, namespace lookups) of the style system.                 *)
(*                                                                         *)
(* Strings are sequences of UTF-8 bytes, as Rust's str is.  An Atom is an  *)
(* interned string, so it is modelled by the byte string it interns: two   *)
(* atoms are equal exactly when their strings are byte-equal.              *)
(***************************************************************************)
EXTENDS Integers, Sequences, FiniteSets, TLC

VARIABLES
    catalog,           \* the generated table of pseudo-elements
    debug_assertions,  \* cfg!(debug_assertions) of the build
    parser,            \* the SelectorParser: stylesheet origin and namespaces
    pseudo,            \* the PseudoElement constructed last, if any
    prev,              \* the PseudoElement constructed before that one, if any
    res,               \* the last call: its name, arguments and result
    aborted            \* a panic has unwound the program

vars == <<catalog, debug_assertions, parser, pseudo, prev, res, aborted>>

(***************************************************************************)
(* Bounds                                                                  *)
(***************************************************************************)
\* Largest number of upper-cased letters in an enumerated spelling of a name
\* (the all-upper-case spelling is always enumerated as well).
MaxUpper == 1

(***************************************************************************)
(* Option<T> and Result<T, ()>                                             *)
(***************************************************************************)
None == [tag |-> "None"]

Some(v) == [tag |-> "Some", val |-> v]

Ok(v) == [tag |-> "Ok", val |-> v]

Err == [tag |-> "Err"]

Panic == [tag |-> "panic"]

(***************************************************************************)
(* Byte strings                                                            *)
(***************************************************************************)
\* u8::to_ascii_lowercase: only 'A'..'Z' are mapped.
to_ascii_lowercase(b) == IF b \in 65..90 THEN b + 32 ELSE b

\* str::eq_ignore_ascii_case, on the bytes of the two strings.
eq_ignore_ascii_case(s, t) ==
    /\ Len(s) = Len(t)
    /\ \A i \in 1..Len(s) : to_ascii_lowercase(s[i]) = to_ascii_lowercase(t[i])

\* &text[1..]: the text without its leading colon.
SkipColon(text) == SubSeq(text, 2, Len(text))

(***************************************************************************)
(* Atoms named in the source and in the catalog                            *)
(***************************************************************************)
atom_before == <<58, 98, 101, 102, 111, 114, 101>>               \* ":before"

atom_after == <<58, 97, 102, 116, 101, 114>>                     \* ":after"

atom_internal_box ==
    <<58, 45, 105, 110, 116, 101, 114, 110, 97, 108, 45, 98, 111, 120>>  \* ":-internal-box"

atom_backdrop == <<58, 98, 97, 99, 107, 100, 114, 111, 112>>     \* ":backdrop"

atom_hover == <<58, 104, 111, 118, 101, 114>>                    \* ":hover", not a pseudo-element

atom_BEFORE == <<58, 66, 69, 70, 79, 82, 69>>                    \* ":BEFORE", not in the catalog

\* PseudoElement(Atom, bool)
PseudoElement(atom, anon) == [atom |-> atom, is_anon_box |-> anon]

as_atom(p) == p.atom

is_anon_box(p) == p.is_anon_box

(***************************************************************************)
(* generated/gecko_pseudo_element_helper.rs: the list of                   *)
(* pseudo_element!(text, atom, is_anon_box) invocations.  The atom of an   *)
(* entry interns the entry's colon-prefixed text.                          *)
(***************************************************************************)
CatalogEntry(text, anon) == [text |-> text, atom |-> text, is_anon_box |-> anon]

GeneratedCatalog ==
    << CatalogEntry(atom_after, FALSE),
       CatalogEntry(atom_before, FALSE),
       CatalogEntry(atom_backdrop, FALSE),
       CatalogEntry(atom_internal_box, TRUE) >>

Reverse(s) == [i \in 1..Len(s) |-> s[Len(s) + 1 - i]]

\* The catalog is generated outside this file; the order of its entries is
\* not fixed by anything the parser relies on.
Catalogs == { GeneratedCatalog, Reverse(GeneratedCatalog) }

(***************************************************************************)
(* impl PseudoElement                                                      *)
(***************************************************************************)
\* The first element of a non-empty set of table positions: the macro
\* invocations run in table order and the first one that matches returns.
FirstHit(hits) == CHOOSE i \in hits : \A j \in hits : i <= j

EntryPseudo(i) == PseudoElement(catalog[i].atom, catalog[i].is_anon_box)

\* from_atom(atom, _in_ua): identity comparison of atoms, entry by entry.
from_atom(atom, in_ua) ==
    LET hits == { i \in 1..Len(catalog) : atom = catalog[i].atom }
    IN  IF hits = {} THEN None ELSE Some(EntryPseudo(FirstHit(hits)))

\* from_atom_unchecked without the debug-build check.
from_atom_unchecked_no_check(atom, anon) == Some(PseudoElement(atom, anon))

\* from_atom_unchecked(atom, is_anon_box); Panic is the failed assert_eq! or
\* the panic!("Unknown pseudo").
from_atom_unchecked(atom, anon) ==
    IF debug_assertions
    THEN LET found == from_atom(atom, TRUE)
         IN  IF found.tag = "Some"
             THEN IF is_anon_box(found.val) = anon THEN Some(found.val) ELSE Panic
             ELSE Panic
    ELSE Some(PseudoElement(atom, anon))

\* from_slice with the `!$is_anon_box || in_ua_stylesheet` test left out.
from_slice_no_guard(s, in_ua_stylesheet) ==
    LET hits == { i \in 1..Len(catalog) :
                    eq_ignore_ascii_case(s, SkipColon(catalog[i].text)) }
    IN  IF hits = {} THEN None ELSE Some(EntryPseudo(FirstHit(hits)))

\* from_slice building PseudoElement($atom, false) whatever the entry says.
from_slice_flag_lost(s, in_ua_stylesheet) ==
    LET hits == { i \in 1..Len(catalog) :
                    /\ (~catalog[i].is_anon_box) \/ in_ua_stylesheet
                    /\ eq_ignore_ascii_case(s, SkipColon(catalog[i].text)) }
    IN  IF hits = {} THEN None
        ELSE Some(PseudoElement(catalog[FirstHit(hits)].atom, FALSE))

\* from_slice with the origin test inverted: `$is_anon_box || !in_ua_stylesheet`.
from_slice_guard_inverted(s, in_ua_stylesheet) ==
    LET hits == { i \in 1..Len(catalog) :
                    /\ catalog[i].is_anon_box \/ ~in_ua_stylesheet
                    /\ eq_ignore_ascii_case(s, SkipColon(catalog[i].text)) }
    IN  IF hits = {} THEN None ELSE Some(EntryPseudo(FirstHit(hits)))

\* str::to_lowercase restricted to the characters of the inputs: ASCII
\* letters, and U+212A KELVIN SIGN (bytes E2 84 AA), whose lowercase is 'k'.
RECURSIVE to_lowercase(_)
to_lowercase(s) ==
    IF s = <<>> THEN <<>>
    ELSE IF Len(s) >= 3 /\ SubSeq(s, 1, 3) = <<226, 132, 170>>
         THEN <<107>> \o to_lowercase(SubSeq(s, 4, Len(s)))
         ELSE <<to_ascii_lowercase(Head(s))>> \o to_lowercase(Tail(s))

\* from_slice comparing Unicode-lowercased strings instead of
\* eq_ignore_ascii_case.
from_slice_unicode_fold(s, in_ua_stylesheet) ==
    LET hits == { i \in 1..Len(catalog) :
                    /\ (~catalog[i].is_anon_box) \/ in_ua_stylesheet
                    /\ to_lowercase(s) = to_lowercase(SkipColon(catalog[i].text)) }
    IN  IF hits = {} THEN None ELSE Some(EntryPseudo(FirstHit(hits)))

\* from_slice(s, in_ua_stylesheet)
from_slice(s, in_ua_stylesheet) ==
    LET hits == { i \in 1..Len(catalog) :
                    /\ (~catalog[i].is_anon_box) \/ in_ua_stylesheet
                    /\ eq_ignore_ascii_case(s, SkipColon(catalog[i].text)) }
    IN  IF hits = {} THEN None ELSE Some(EntryPseudo(FirstHit(hits)))

\* #[derive(PartialEq)] replaced by a comparison of the atoms only.
PseudoElement_eq_atoms_only(a, b) == a.atom = b.atom

\* #[derive(PartialEq, Eq)] on PseudoElement(Atom, bool): field by field.
PseudoElement_eq(a, b) == a.atom = b.atom /\ a.is_anon_box = b.is_anon_box

\* #[derive(Hash)]: what is fed to the Hasher, field by field (the atom's
\* hash, then the bool as one byte).
PseudoElement_hash(p) == <<p.atom, IF p.is_anon_box THEN 1 ELSE 0>>

(***************************************************************************)
(* enum NonTSPseudoClass and element_state::ElementState                   *)
(***************************************************************************)
NonTSPseudoClass ==
    { "AnyLink", "Link", "Visited", "Active", "Focus", "Fullscreen", "Hover",
      "Enabled", "Disabled", "Checked", "Indeterminate", "ReadWrite", "ReadOnly" }

\* ElementState is a bit set; a value is the set of the bits that are set.
IN_ACTIVE_STATE == {"IN_ACTIVE_STATE"}

IN_FOCUS_STATE == {"IN_FOCUS_STATE"}

IN_FULLSCREEN_STATE == {"IN_FULLSCREEN_STATE"}

IN_HOVER_STATE == {"IN_HOVER_STATE"}

IN_ENABLED_STATE == {"IN_ENABLED_STATE"}

IN_DISABLED_STATE == {"IN_DISABLED_STATE"}

IN_CHECKED_STATE == {"IN_CHECKED_STATE"}

IN_INDETERMINATE_STATE == {"IN_INDETERMINATE_STATE"}

IN_READ_WRITE_STATE == {"IN_READ_WRITE_STATE"}

ElementState_empty == {}

\* state_flag with ReadOnly moved to the arm of the stateless variants.
state_flag_read_only_empty(pc) ==
    CASE pc = "Active" -> IN_ACTIVE_STATE
      [] pc = "Focus" -> IN_FOCUS_STATE
      [] pc = "Fullscreen" -> IN_FULLSCREEN_STATE
      [] pc = "Hover" -> IN_HOVER_STATE
      [] pc = "Enabled" -> IN_ENABLED_STATE
      [] pc = "Disabled" -> IN_DISABLED_STATE
      [] pc = "Checked" -> IN_CHECKED_STATE
      [] pc = "Indeterminate" -> IN_INDETERMINATE_STATE
      [] pc = "ReadWrite" -> IN_READ_WRITE_STATE
      [] pc \in {"ReadOnly", "AnyLink", "Link", "Visited"} -> ElementState_empty

\* NonTSPseudoClass::state_flag
state_flag(pc) ==
    CASE pc = "Active" -> IN_ACTIVE_STATE
      [] pc = "Focus" -> IN_FOCUS_STATE
      [] pc = "Fullscreen" -> IN_FULLSCREEN_STATE
      [] pc = "Hover" -> IN_HOVER_STATE
      [] pc = "Enabled" -> IN_ENABLED_STATE
      [] pc = "Disabled" -> IN_DISABLED_STATE
      [] pc = "Checked" -> IN_CHECKED_STATE
      [] pc = "Indeterminate" -> IN_INDETERMINATE_STATE
      [] pc \in {"ReadOnly", "ReadWrite"} -> IN_READ_WRITE_STATE
      [] pc \in {"AnyLink", "Link", "Visited"} -> ElementState_empty

(***************************************************************************)
(* impl selectors::Parser for SelectorParser                               *)
(***************************************************************************)
str_any_link == <<97, 110, 121, 45, 108, 105, 110, 107>>

str_link == <<108, 105, 110, 107>>

str_visited == <<118, 105, 115, 105, 116, 101, 100>>

str_active == <<97, 99, 116, 105, 118, 101>>

str_focus == <<102, 111, 99, 117, 115>>

str_fullscreen == <<102, 117, 108, 108, 115, 99, 114, 101, 101, 110>>

str_hover == <<104, 111, 118, 101, 114>>

str_enabled == <<101, 110, 97, 98, 108, 101, 100>>

str_disabled == <<100, 105, 115, 97, 98, 108, 101, 100>>

str_checked == <<99, 104, 101, 99, 107, 101, 100>>

str_indeterminate == <<105, 110, 100, 101, 116, 101, 114, 109, 105, 110, 97, 116, 101>>

str_read_write == <<114, 101, 97, 100, 45, 119, 114, 105, 116, 101>>

str_read_only == <<114, 101, 97, 100, 45, 111, 110, 108, 121>>

\* The arms of the match_ignore_ascii_case! in parse_non_ts_pseudo_class,
\* in source order.
PseudoClassArms ==
    << <<str_any_link, "AnyLink">>,
       <<str_link, "Link">>,
       <<str_visited, "Visited">>,
       <<str_active, "Active">>,
       <<str_focus, "Focus">>,
       <<str_fullscreen, "Fullscreen">>,
       <<str_hover, "Hover">>,
       <<str_enabled, "Enabled">>,
       <<str_disabled, "Disabled">>,
       <<str_checked, "Checked">>,
       <<str_indeterminate, "Indeterminate">>,
       <<str_read_write, "ReadWrite">>,
       <<str_read_only, "ReadOnly">> >>

\* parse_non_ts_pseudo_class matching with `==` instead of ignoring case.
parse_non_ts_pseudo_class_exact(name) ==
    LET hits == { i \in 1..Len(PseudoClassArms) : name = PseudoClassArms[i][1] }
    IN  IF hits = {} THEN Err ELSE Ok(PseudoClassArms[FirstHit(hits)][2])

\* parse_non_ts_pseudo_class(&self, name): the first arm that matches the
\* name ignoring ASCII case, or the `_ => return Err(())` arm.
parse_non_ts_pseudo_class(name) ==
    LET hits == { i \in 1..Len(PseudoClassArms) :
                    eq_ignore_ascii_case(name, PseudoClassArms[i][1]) }
    IN  IF hits = {} THEN Err ELSE Ok(PseudoClassArms[FirstHit(hits)][2])

\* self.in_user_agent_stylesheet()
in_user_agent_stylesheet == parser.in_ua

\* parse_pseudo_element(&self, name)
parse_pseudo_element(name) ==
    LET found == from_slice(name, in_user_agent_stylesheet)
    IN  IF found.tag = "Some" THEN Ok(found.val) ELSE Err

\* default_namespace(&self)
default_namespace == parser.namespaces.default

\* namespace_for_prefix falling back to the default namespace.
namespace_for_prefix_or_default(prefix) ==
    IF prefix \in DOMAIN parser.namespaces.prefixes
    THEN Some(parser.namespaces.prefixes[prefix])
    ELSE parser.namespaces.default

\* namespace_for_prefix(&self, prefix): HashMap::get(prefix).cloned()
namespace_for_prefix(prefix) ==
    IF prefix \in DOMAIN parser.namespaces.prefixes
    THEN Some(parser.namespaces.prefixes[prefix])
    ELSE None

(***************************************************************************)
(* impl SelectorImpl                                                       *)
(***************************************************************************)
pseudo_is_before_or_after(p) ==
    as_atom(p) = atom_before \/ as_atom(p) = atom_after

\* pseudo_element_cascade_type testing the anonymous-box flag first.
pseudo_element_cascade_type_anon_first(p) ==
    IF is_anon_box(p) THEN "Precomputed"
    ELSE IF pseudo_is_before_or_after(p) THEN "Eager"
    ELSE "Lazy"

\* pseudo_element_cascade_type(pseudo)
pseudo_element_cascade_type(p) ==
    IF pseudo_is_before_or_after(p) THEN "Eager"
    ELSE IF is_anon_box(p) THEN "Precomputed"
    ELSE "Lazy"

\* each_pseudo_element(fun): the values handed to fun, in order.
each_pseudo_element == [i \in 1..Len(catalog) |-> EntryPseudo(i)]

pseudo_class_state_flag(pc) == state_flag(pc)

(***************************************************************************)
(* Inputs                                                                  *)
(***************************************************************************)
LowerLetters(w) == { i \in 1..Len(w) : w[i] \in 97..122 }

Uppercased(w, U) == [i \in 1..Len(w) |-> IF i \in U THEN w[i] - 32 ELSE w[i]]

\* The spellings of w with at most MaxUpper letters in upper case, and the
\* spelling with all of them in upper case.
CaseSpellings(w) ==
    { Uppercased(w, U) :
        U \in { V \in SUBSET LowerLetters(w) :
                  Cardinality(V) <= MaxUpper \/ V = LowerLetters(w) } }

str_befor == <<98, 101, 102, 111, 114>>

str_beforee == <<98, 101, 102, 111, 114, 101, 101>>

\* "bac\u{212A}drop": "backdrop" with KELVIN SIGN for its k
str_bac_kelvin_drop == <<98, 97, 99, 226, 132, 170, 100, 114, 111, 112>>

\* "lin\u{212A}": "link" with KELVIN SIGN for its k
str_lin_kelvin == <<108, 105, 110, 226, 132, 170>>

str_hove == <<104, 111, 118, 101>>

str_read_write_underscore == <<114, 101, 97, 100, 95, 119, 114, 105, 116, 101>>

str_not_a_real_pseudo_class ==
    <<110, 111, 116, 45, 97, 45, 114, 101, 97, 108, 45, 112, 115, 101, 117,
      100, 111, 45, 99, 108, 97, 115, 115>>

PseudoElementNames ==
    UNION { CaseSpellings(SkipColon(GeneratedCatalog[i].text)) :
              i \in 1..Len(GeneratedCatalog) }
    \cup { <<>>, atom_before, str_befor, str_beforee, str_bac_kelvin_drop, str_hover }

PseudoClassNames ==
    UNION { CaseSpellings(PseudoClassArms[i][1]) : i \in 1..Len(PseudoClassArms) }
    \cup { <<>>, str_lin_kelvin, str_hove, str_read_write_underscore,
           str_not_a_real_pseudo_class, SkipColon(atom_before) }

\* Atoms handed to from_atom_unchecked: two of the catalog, one that is not.
Atoms == { atom_before, atom_internal_box, atom_hover }

prefix_svg == <<115, 118, 103>>          \* "svg"

prefix_SVG == <<83, 86, 71>>             \* "SVG"

prefix_xlink == <<120, 108, 105, 110, 107>>  \* "xlink"

Prefixes == { prefix_svg, prefix_SVG, prefix_xlink }

ns_html == "http://www.w3.org/1999/xhtml"

ns_svg == "http://www.w3.org/2000/svg"

ns_xlink == "http://www.w3.org/1999/xlink"

\* Namespaces { default: Option<Namespace>, prefixes: HashMap<Atom, Namespace> }
NoNamespaces == [default |-> None, prefixes |-> [p \in {} |-> ns_html]]

NamespaceTables ==
    { NoNamespaces,
      [default |-> Some(ns_html),
       prefixes |-> [p \in {prefix_svg, prefix_xlink} |->
                       IF p = prefix_svg THEN ns_svg ELSE ns_xlink]],
      [default |-> None, prefixes |-> [p \in {prefix_svg} |-> ns_svg]] }

\* A SelectorParser: whether its stylesheet is a user-agent one, and the
\* namespaces of that stylesheet.
SelectorParsers == [in_ua : BOOLEAN, namespaces : NamespaceTables]

(***************************************************************************)
(* The program                                                             *)
(***************************************************************************)
Init ==
    /\ catalog \in Catalogs
    /\ debug_assertions \in BOOLEAN
    /\ parser \in { p \in SelectorParsers : p.namespaces = NoNamespaces }
    /\ pseudo = None
    /\ prev = None
    /\ res = [op |-> "start"]
    /\ aborted = FALSE

\* A value was constructed: it becomes the current one.
Keep(p) ==
    /\ pseudo' = Some(p)
    /\ prev' = pseudo

\* The parse of another stylesheet begins, with its own SelectorParser.
NewSelectorParser(p) ==
    /\ ~aborted
    /\ p # parser
    /\ parser' = p
    /\ res' = [op |-> "new"]
    /\ UNCHANGED <<catalog, debug_assertions, pseudo, prev, aborted>>

ParsePseudoElement(name) ==
    /\ ~aborted
    /\ LET r == parse_pseudo_element(name)
       IN  /\ res' = [op |-> "parse_pseudo_element", name |-> name,
                      in_ua |-> in_user_agent_stylesheet, out |-> r]
           /\ IF r.tag = "Ok" THEN Keep(r.val) ELSE UNCHANGED <<pseudo, prev>>
    /\ UNCHANGED <<catalog, debug_assertions, parser, aborted>>

ParseNonTSPseudoClass(name) ==
    /\ ~aborted
    /\ res' = [op |-> "parse_non_ts_pseudo_class", name |-> name,
               in_ua |-> in_user_agent_stylesheet,
               out |-> parse_non_ts_pseudo_class(name)]
    /\ UNCHANGED <<catalog, debug_assertions, parser, pseudo, prev, aborted>>

FromAtomUnchecked(atom, anon) ==
    /\ ~aborted
    /\ LET r == from_atom_unchecked(atom, anon)
       IN  /\ res' = [op |-> "from_atom_unchecked", atom |-> atom,
                      is_anon_box |-> anon, out |-> r]
           /\ aborted' = (r.tag = "panic")
           /\ IF r.tag = "Some" THEN Keep(r.val) ELSE UNCHANGED <<pseudo, prev>>
    /\ UNCHANGED <<catalog, debug_assertions, parser>>

PseudoElementCascadeType ==
    /\ ~aborted
    /\ pseudo.tag = "Some"
    /\ res' = [op |-> "pseudo_element_cascade_type", pseudo |-> pseudo.val,
               out |-> pseudo_element_cascade_type(pseudo.val)]
    /\ UNCHANGED <<catalog, debug_assertions, parser, pseudo, prev, aborted>>

\* The two values held are compared and hashed.
ComparePseudoElements ==
    /\ ~aborted
    /\ pseudo.tag = "Some"
    /\ prev.tag = "Some"
    /\ res' = [op |-> "eq", a |-> prev.val, b |-> pseudo.val,
               out |-> PseudoElement_eq(prev.val, pseudo.val),
               hash_a |-> PseudoElement_hash(prev.val),
               hash_b |-> PseudoElement_hash(pseudo.val)]
    /\ UNCHANGED <<catalog, debug_assertions, parser, pseudo, prev, aborted>>

EachPseudoElement ==
    /\ ~aborted
    /\ res' = [op |-> "each_pseudo_element", out |-> each_pseudo_element]
    /\ UNCHANGED <<catalog, debug_assertions, parser, pseudo, prev, aborted>>

PseudoClassStateFlag(pc) ==
    /\ ~aborted
    /\ res' = [op |-> "pseudo_class_state_flag", pc |-> pc,
               out |-> pseudo_class_state_flag(pc)]
    /\ UNCHANGED <<catalog, debug_assertions, parser, pseudo, prev, aborted>>

DefaultNamespace ==
    /\ ~aborted
    /\ res' = [op |-> "default_namespace", out |-> default_namespace]
    /\ UNCHANGED <<catalog, debug_assertions, parser, pseudo, prev, aborted>>

NamespaceForPrefix(prefix) ==
    /\ ~aborted
    /\ res' = [op |-> "namespace_for_prefix", prefix |-> prefix,
               out |-> namespace_for_prefix(prefix)]
    /\ UNCHANGED <<catalog, debug_assertions, parser, pseudo, prev, aborted>>

\* Pseudo-elements: stylesheets of either origin are parsed, values are
\* constructed, classified and compared.
Next ==
    \/ \E p \in SelectorParsers : p.namespaces = parser.namespaces /\ NewSelectorParser(p)
    \/ \E name \in PseudoElementNames : ParsePseudoElement(name)
    \/ \E atom \in Atoms, anon \in BOOLEAN : FromAtomUnchecked(atom, anon)
    \/ PseudoElementCascadeType
    \/ ComparePseudoElements
    \/ EachPseudoElement

Spec == Init /\ [][Next]_vars

\* Pseudo-classes and namespaces: these calls construct no PseudoElement and
\* read nothing of the catalog.
VocabularyInit ==
    /\ catalog = GeneratedCatalog
    /\ debug_assertions \in BOOLEAN
    /\ parser \in SelectorParsers
    /\ pseudo = None
    /\ prev = None
    /\ res = [op |-> "start"]
    /\ aborted = FALSE

VocabularyNext ==
    \/ \E p \in SelectorParsers : NewSelectorParser(p)
    \/ \E name \in PseudoClassNames : ParseNonTSPseudoClass(name)
    \/ \E pc \in NonTSPseudoClass : PseudoClassStateFlag(pc)
    \/ DefaultNamespace
    \/ \E prefix \in Prefixes : NamespaceForPrefix(prefix)

VocabularySpec == VocabularyInit /\ [][VocabularyNext]_vars

(***************************************************************************)
(* Properties                                                              *)
(***************************************************************************)
\* n and w are the same string up to the case of ASCII letters.
SameButAsciiCase(n, w) ==
    /\ Len(n) = Len(w)
    /\ \A i \in 1..Len(n) :
         \/ n[i] = w[i]
         \/ n[i] \in 65..90 /\ w[i] = n[i] + 32
         \/ n[i] \in 97..122 /\ w[i] = n[i] - 32

HasUpper(n) == \E i \in 1..Len(n) : n[i] \in 65..90

InCatalog(p) ==
    \E i \in 1..Len(catalog) :
        p.atom = catalog[i].atom /\ p.is_anon_box = catalog[i].is_anon_box

\* C1: a parse in a stylesheet that is not a user-agent one never returns a
\* pseudo-element whose flag is set, and fails on every spelling, in any
\* ASCII case, of the text of a catalog entry whose flag is set.
C1_InternalHiddenFromUntrusted ==
    (res.op = "parse_pseudo_element" /\ ~res.in_ua) =>
        /\ res.out.tag = "Ok" => ~res.out.val.is_anon_box
        /\ \A i \in 1..Len(catalog) :
             (catalog[i].is_anon_box
                /\ SameButAsciiCase(res.name, SkipColon(catalog[i].text)))
             => res.out.tag = "Err"

C1_Witness ==
    /\ res.op = "parse_pseudo_element"
    /\ ~res.in_ua
    /\ HasUpper(res.name)
    /\ SameButAsciiCase(res.name, SkipColon(atom_internal_box))
    /\ res.out.tag = "Err"

\* C2: looking up the stored text of any catalog entry in a user-agent
\* stylesheet returns that entry's identifier and that entry's flag.
C2_RoundTrip ==
    (res.op = "parse_pseudo_element" /\ res.in_ua) =>
        \A i \in 1..Len(catalog) :
            res.name = SkipColon(catalog[i].text) =>
                /\ res.out.tag = "Ok"
                /\ res.out.val.atom = catalog[i].atom
                /\ res.out.val.is_anon_box = catalog[i].is_anon_box

C2_Witness ==
    /\ res.op = "parse_pseudo_element"
    /\ res.in_ua
    /\ res.name = SkipColon(atom_internal_box)
    /\ res.out.tag = "Ok"
    /\ res.out.val = PseudoElement(atom_internal_box, TRUE)

\* C3: the cascade type is Eager for the before and after identifiers
\* whatever the flag, else Precomputed when the flag is set, else Lazy.
C3_CascadeTypePriority ==
    res.op = "pseudo_element_cascade_type" =>
        /\ res.out \in {"Eager", "Precomputed", "Lazy"}
        /\ res.pseudo.atom \in {atom_before, atom_after} => res.out = "Eager"
        /\ (res.pseudo.atom \notin {atom_before, atom_after} /\ res.pseudo.is_anon_box)
             => res.out = "Precomputed"
        /\ (res.pseudo.atom \notin {atom_before, atom_after} /\ ~res.pseudo.is_anon_box)
             => res.out = "Lazy"

C3_Witness ==
    /\ res.op = "pseudo_element_cascade_type"
    /\ res.pseudo = PseudoElement(atom_before, TRUE)
    /\ res.out = "Eager"

DedicatedBitVariants ==
    { "Active", "Focus", "Fullscreen", "Hover", "Enabled", "Disabled", "Checked",
      "Indeterminate" }

\* C4: the eight state variants map to one bit each, pairwise disjoint and
\* disjoint from the read-write bit; ReadOnly and ReadWrite map to the one
\* read-write bit; AnyLink, Link and Visited map to the empty set; these are
\* all thirteen variants.
C4_StateFlagTable ==
    /\ Cardinality(NonTSPseudoClass) = 13
    /\ res.op = "pseudo_class_state_flag" =>
        /\ res.pc \in DedicatedBitVariants \cup {"ReadOnly", "ReadWrite"}
                      \cup {"AnyLink", "Link", "Visited"}
        /\ res.pc \in DedicatedBitVariants =>
             /\ Cardinality(res.out) = 1
             /\ res.out \cap state_flag("ReadWrite") = {}
             /\ res.out \cap state_flag("ReadOnly") = {}
             /\ \A q \in DedicatedBitVariants \ {res.pc} : res.out \cap state_flag(q) = {}
        /\ res.pc \in {"ReadOnly", "ReadWrite"} =>
             /\ Cardinality(res.out) = 1
             /\ res.out = IN_READ_WRITE_STATE
             /\ res.out = state_flag("ReadWrite")
             /\ res.out = state_flag("ReadOnly")
        /\ res.pc \in {"AnyLink", "Link", "Visited"} => res.out = {}

C4_Witness ==
    /\ res.op = "pseudo_class_state_flag"
    /\ res.pc = "ReadOnly"
    /\ res.out = IN_READ_WRITE_STATE

\* The thirteen names of the vocabulary, each with its variant.
Vocabulary ==
    { <<str_any_link, "AnyLink">>, <<str_link, "Link">>, <<str_visited, "Visited">>,
      <<str_active, "Active">>, <<str_focus, "Focus">>,
      <<str_fullscreen, "Fullscreen">>, <<str_hover, "Hover">>,
      <<str_enabled, "Enabled">>, <<str_disabled, "Disabled">>,
      <<str_checked, "Checked">>, <<str_indeterminate, "Indeterminate">>,
      <<str_read_write, "ReadWrite">>, <<str_read_only, "ReadOnly">> }

\* C5: parse_non_ts_pseudo_class returns Ok(variant) exactly when the name
\* is, up to ASCII case, one of the thirteen names, with that name's
\* variant, and Err otherwise, in stylesheets of either origin.
C5_ResolveVocabulary ==
    res.op = "parse_non_ts_pseudo_class" =>
        LET named == { v \in Vocabulary : SameButAsciiCase(res.name, v[1]) }
        IN  /\ named = {} => res.out.tag = "Err"
            /\ \A v \in named : res.out.tag = "Ok" /\ res.out.val = v[2]

C5_Witness ==
    /\ res.op = "parse_non_ts_pseudo_class"
    /\ ~res.in_ua
    /\ HasUpper(res.name)
    /\ SameButAsciiCase(res.name, str_read_only)
    /\ res.out.tag = "Ok"
    /\ res.out.val = "ReadOnly"

\* C6, as stated: two values with the same identifier compare equal and
\* hash equally whatever flag each carries.
C6_EqualityOnIdentifierOnly ==
    (res.op = "eq" /\ res.a.atom = res.b.atom) =>
        res.out /\ res.hash_a = res.hash_b

\* C6, amended: equality and hashing go over both fields.  Two values with
\* the same identifier compare equal exactly when their flags agree, and
\* equal values hash equally; the flags always agree in a debug build.
C6_EqualityOnBothFields ==
    res.op = "eq" =>
        /\ res.out <=> (res.a.atom = res.b.atom /\ res.a.is_anon_box = res.b.is_anon_box)
        /\ res.out => res.hash_a = res.hash_b
        /\ (debug_assertions /\ res.a.atom = res.b.atom) => res.out

C6_Witness ==
    /\ res.op = "eq"
    /\ res.a.atom = res.b.atom
    /\ res.a.is_anon_box # res.b.is_anon_box
    /\ ~res.out

\* C7: in a debug build from_atom_unchecked panics unless the atom is a
\* catalog identifier and the flag is the catalog's for it, and returns the
\* catalog's value otherwise; every value held is then a catalog value.
C7_DebugRevalidates ==
    debug_assertions =>
        /\ res.op = "from_atom_unchecked" =>
             IF InCatalog(PseudoElement(res.atom, res.is_anon_box))
             THEN /\ res.out.tag = "Some"
                  /\ res.out.val = PseudoElement(res.atom, res.is_anon_box)
                  /\ ~aborted
             ELSE res.out.tag = "panic" /\ aborted
        /\ pseudo.tag = "Some" => InCatalog(pseudo.val)
        /\ prev.tag = "Some" => InCatalog(prev.val)

C7_Witness ==
    /\ debug_assertions
    /\ res.op = "from_atom_unchecked"
    /\ res.atom = atom_before
    /\ res.is_anon_box
    /\ res.out.tag = "panic"
    /\ pseudo.tag = "Some"

\* C8: names that differ only in the case of ASCII letters get the same
\* result from the lookup; a name matches an entry only if every byte that
\* is not an ASCII letter is the entry's byte.
C8_AsciiCaseInsensitive ==
    res.op = "parse_pseudo_element" =>
        /\ \A n \in PseudoElementNames :
             SameButAsciiCase(n, res.name) =>
                LET other == from_slice(n, res.in_ua)
                IN  /\ (other.tag = "Some") <=> (res.out.tag = "Ok")
                    /\ other.tag = "Some" => other.val = res.out.val
        /\ res.out.tag = "Ok" =>
             LET text == SkipColon(res.out.val.atom)
             IN  /\ Len(res.name) = Len(text)
                 /\ \A i \in 1..Len(text) :
                      (res.name[i] >= 128 \/ text[i] >= 128) => res.name[i] = text[i]

C8_Witness ==
    /\ res.op = "parse_pseudo_element"
    /\ res.name = SkipColon(atom_BEFORE)
    /\ res.out.tag = "Ok"
    /\ res.out.val.atom = atom_before

Registered(prefix) == prefix \in DOMAIN parser.namespaces.prefixes

\* C9: namespace_for_prefix returns None for a prefix the table does not
\* hold and the registered URL for one it holds; default_namespace returns
\* the default slot; neither call changes the table.
C9_NamespaceLookups ==
    [][ /\ res'.op = "namespace_for_prefix" =>
            /\ parser' = parser
            /\ Registered(res'.prefix) =>
                 /\ res'.out.tag = "Some"
                 /\ res'.out.val = parser.namespaces.prefixes[res'.prefix]
            /\ ~Registered(res'.prefix) => res'.out.tag = "None"
        /\ res'.op = "default_namespace" =>
            /\ parser' = parser
            /\ res'.out.tag = parser.namespaces.default.tag
            /\ res'.out.tag = "Some" => res'.out.val = parser.namespaces.default.val
      ]_vars

C9_Witness ==
    /\ res.op = "namespace_for_prefix"
    /\ res.prefix = prefix_SVG
    /\ Registered(prefix_svg)
    /\ parser.namespaces.default.tag = "Some"
    /\ res.out.tag = "None"

\* C10: a name that parses in a stylesheet that is not a user-agent one
\* parses to the same value, with the same cascade type, in a user-agent
\* one; the two differ only where the user-agent result has its flag set.
C10_TrustOnlyAdds ==
    res.op = "parse_pseudo_element" =>
        LET trusted == from_slice(res.name, TRUE)
            untrusted == from_slice(res.name, FALSE)
        IN  /\ (~res.in_ua /\ res.out.tag = "Ok") =>
                 /\ trusted.tag = "Some"
                 /\ trusted.val = res.out.val
                 /\ pseudo_element_cascade_type(trusted.val)
                      = pseudo_element_cascade_type(res.out.val)
            /\ (res.in_ua /\ res.out.tag = "Ok") =>
                 \/ untrusted.tag = "Some" /\ untrusted.val = res.out.val
                 \/ untrusted.tag = "None" /\ res.out.val.is_anon_box
            /\ (res.in_ua /\ res.out.tag = "Err") => untrusted.tag = "None"

C10_Witness ==
    /\ res.op = "parse_pseudo_element"
    /\ ~res.in_ua
    /\ res.name = SkipColon(atom_after)
    /\ res.out.tag = "Ok"
    /\ res.out.val = PseudoElement(atom_after, FALSE)

====
